---- MODULE Spec2Model ----
(***************************************************************************)
(* A model of the tetris physics core: Field, PhysicalInteractor and       *)
(* MovementManager (src/tetris/physics), driven as ClassicalApp drives     *)
(* them (src/tetris/app.py).                                               *)
(*                                                                         *)
(* Grids are sequences of rows, rows are sequences of 0/1.  The code       *)
(* indexes from 0; Cell(g, r, c) reads g[r + 1][c + 1].                     *)
(***************************************************************************)
EXTENDS Integers, Sequences, FiniteSets, TLC

(***************************************************************************)
(* Configuration.  config.py supplies the field dimensions and the frame   *)
(* rate; they are parameters of the core, kept small here.                 *)
(***************************************************************************)
FIELD_WIDTH == 3

FIELD_HEIGHT == 4

PHYSICS_FRAME_RATE == 2

\* The speed the manager is constructed with (cfg.DEFAULT_SPEED), in lines
\* per second.
DEFAULT_SPEED == 1

\* The gravity counter is never reset once it has passed the cadence; all
\* values above every cadence are folded into two representatives so that
\* each tick still changes the counter.
CounterSlack == 2

\* tick_game is not taken while the lines-scored record holds this many
\* entries: the presentation task drains it first.
MaxScored == 1

(***************************************************************************)
(* Key (entities.py): NORMAL, LEFT, DOWN, RIGHT with a cyclic successor.   *)
(***************************************************************************)
KeyItems == <<"NORMAL", "LEFT", "DOWN", "RIGHT">>

Key == {KeyItems[i] : i \in 1..Len(KeyItems)}

KeyIndex(k) == CHOOSE i \in 1..Len(KeyItems) : KeyItems[i] = k

\* (mutant) the index stops at the ends of the list
KeyStepClamped(k, ascending) ==
    LET step == IF ascending THEN 1 ELSE -1
        current == KeyIndex(k) - 1
        nxt == current + step
    IN KeyItems[(IF nxt < 0 THEN 0
                 ELSE IF nxt >= Len(KeyItems) THEN Len(KeyItems) - 1
                 ELSE nxt) + 1]

\* Key.next(ascending): items[(current + step) % len(items)]
KeyStep(k, ascending) ==
    LET step == IF ascending THEN 1 ELSE -1
        current == KeyIndex(k) - 1
    IN KeyItems[((current + step) % Len(KeyItems)) + 1]

KeyNext(k) == KeyStep(k, TRUE)

KeyPrev(k) == KeyStep(k, FALSE)

\* _random_figure: rand_state = Key(2)
SpawnKey == KeyItems[2]

(***************************************************************************)
(* Event (services/keyboard_events.py).                                    *)
(***************************************************************************)
Event == {"NO_PENDING_EVENT", "MOVE_LEFT", "MOVE_RIGHT", "SPEED_UP",
          "ROTATE_FIGURE", "PAUSE_GAME", "UNPAUSE_GAME"}

get_neutral_event == "NO_PENDING_EVENT"

(***************************************************************************)
(* The catalog handed to set_available_figures: two of the preset figures. *)
(***************************************************************************)
square_figure ==
    [NORMAL |-> <<<<1, 1>>, <<1, 1>>>>,
     LEFT   |-> <<<<1, 1>>, <<1, 1>>>>,
     DOWN   |-> <<<<1, 1>>, <<1, 1>>>>,
     RIGHT  |-> <<<<1, 1>>, <<1, 1>>>>]

L_figure ==
    [NORMAL |-> <<<<1, 1, 1>>, <<1, 0, 0>>, <<0, 0, 0>>>>,
     LEFT   |-> <<<<1, 0, 0>>, <<1, 0, 0>>, <<1, 1, 0>>>>,
     DOWN   |-> <<<<0, 0, 1>>, <<1, 1, 1>>, <<0, 0, 0>>>>,
     RIGHT  |-> <<<<1, 1, 0>>, <<0, 1, 0>>, <<0, 1, 0>>>>]

available_figures == <<square_figure, L_figure>>

FigureIds == 1..Len(available_figures)

\* What FigureBuilder gives after reset(width=2, height=2) with no set_state:
\* every rotation grid all zero.
blank_figure ==
    [k \in Key |-> <<<<0, 0>>, <<0, 0>>>>]

\* Every figure handed to set_available_figures in some game: the catalog
\* above and the blank figure.
built_figures == available_figures \o <<blank_figure>>

BuiltIds == 1..Len(built_figures)

\* Figure(current_key=, states=): states is None until the builder is reset
\* and holds a grid for every key afterwards.
Figure(has_states, given_key) ==
    [has_states |-> has_states,
     states |-> [k \in Key |-> <<>>],
     current_key |-> given_key]

\* "no figure" / "no position" (None in the code)
NoFigure == 0

None == <<>>

(***************************************************************************)
(* Grids.                                                                  *)
(***************************************************************************)
GridHeight(g) == Len(g)

GridWidth(g) == Len(g[1])

Cell(g, r, c) == g[r + 1][c + 1]

\* FieldState(width=, height=): [[0] * width for _ in range(height)]
EmptyGrid(w, h) == [r \in 1..h |-> [c \in 1..w |-> 0]]

\* LET v == e IN Body(v), with e evaluated once wherever it is used
Let(e, Body(_)) == CHOOSE out \in {Body(v) : v \in {e}} : TRUE

\* all(row)
RowFull(row) == \A c \in 1..Len(row) : row[c] /= 0

(***************************************************************************)
(* Field.validate_figure_borders / validate_figure_field_has_no_           *)
(* itersections: only opaque cells are checked.                            *)
(***************************************************************************)
OpaqueCells(fs) ==
    {rc \in (0..(GridHeight(fs) - 1)) \X (0..(GridWidth(fs) - 1)) :
        Cell(fs, rc[1], rc[2]) /= 0}

InField(fld, col, row) ==
    /\ 0 <= col /\ col < GridWidth(fld)
    /\ 0 <= row /\ row < GridHeight(fld)

BorderViolation(fld, fs, coords) ==
    \E rc \in OpaqueCells(fs) :
        ~InField(fld, rc[2] + coords[1], rc[1] + coords[2])

IntersectionViolation(fld, fs, coords) ==
    \E rc \in OpaqueCells(fs) :
        Cell(fld, rc[1] + coords[2], rc[2] + coords[1]) /= 0

\* (mutant) the setter without the intersection check
ValidatePositionBordersOnly(fld, fs, coords) ==
    IF BorderViolation(fld, fs, coords) THEN "OutOfBorderException"
    ELSE "none"

\* (mutant) an overlap inside the field is reported before a cell outside
ValidatePositionIntersectionFirst(fld, fs, coords) ==
    IF \E rc \in OpaqueCells(fs) :
          /\ InField(fld, rc[2] + coords[1], rc[1] + coords[2])
          /\ Cell(fld, rc[1] + coords[2], rc[2] + coords[1]) /= 0
    THEN "ObjectIntersectionException"
    ELSE IF BorderViolation(fld, fs, coords) THEN "OutOfBorderException"
    ELSE "none"

\* The outcome of the _figure_position setter for a non-None position:
\* the border check runs first, the intersection check after it.
ValidatePosition(fld, fs, coords) ==
    IF BorderViolation(fld, fs, coords) THEN "OutOfBorderException"
    ELSE IF IntersectionViolation(fld, fs, coords)
         THEN "ObjectIntersectionException"
         ELSE "none"

(***************************************************************************)
(* Field.update_field_state: one row-major pass that checks and writes     *)
(* cell by cell; a raise keeps the cells already written.                  *)
(***************************************************************************)
RECURSIVE UpdateFrom(_, _, _, _)
UpdateFrom(fld, fs, coords, k) ==
    LET w == GridWidth(fs)
        row_idx == k \div w
        col_idx == k % w
        x == coords[1]
        y == coords[2]
    IN IF k >= GridHeight(fs) * w THEN [field |-> fld, exc |-> "none"]
       ELSE IF Cell(fs, row_idx, col_idx) = 0
            THEN UpdateFrom(fld, fs, coords, k + 1)
       ELSE IF ~InField(fld, col_idx + x, row_idx + y)
            THEN [field |-> fld, exc |-> "OutOfBorderException"]
       ELSE IF Cell(fld, row_idx + y, col_idx + x) /= 0
            THEN [field |-> fld, exc |-> "ObjectIntersectionException"]
       ELSE UpdateFrom(
              [fld EXCEPT ![row_idx + y + 1][col_idx + x + 1] =
                              Cell(fs, row_idx, col_idx)],
              fs, coords, k + 1)

\* (mutant) the transparent points of the grid are written as well
FieldUpdateWholeGrid(fld, fs, coords) ==
    [field |->
        [r \in 1..GridHeight(fld) |-> [c \in 1..GridWidth(fld) |->
            IF /\ r - 1 - coords[2] \in 0..(GridHeight(fs) - 1)
               /\ c - 1 - coords[1] \in 0..(GridWidth(fs) - 1)
            THEN Cell(fs, r - 1 - coords[2], c - 1 - coords[1])
            ELSE fld[r][c]]],
     exc |-> "none"]

FieldUpdate(fld, fs, coords) == UpdateFrom(fld, fs, coords, 0)

\* (mutant) the row is left as it is
MakeRowKept(fld, idx) == fld

\* Field.make_row_empty for an index in range
MakeRowEmpty(fld, idx) ==
    [fld EXCEPT ![idx + 1] = [c \in 1..GridWidth(fld) |-> 0]]

(***************************************************************************)
(* PhysicalInteractor.count_and_clear_lines.                               *)
(***************************************************************************)
RECURSIVE CountFrom(_, _, _, _, _)
CountFrom(fld, row_idx, sequence_counter, rows_found, sequence_found) ==
    IF row_idx >= GridHeight(fld)
    THEN [rows_found |-> rows_found,
          sequence_found |-> IF sequence_counter /= 0
                             THEN Append(sequence_found, sequence_counter)
                             ELSE sequence_found]
    ELSE IF RowFull(fld[row_idx + 1])
         THEN CountFrom(fld, row_idx + 1, sequence_counter + 1,
                        Append(rows_found, row_idx), sequence_found)
         ELSE CountFrom(fld, row_idx + 1, 0, rows_found,
                        IF sequence_counter /= 0
                        THEN Append(sequence_found, sequence_counter)
                        ELSE sequence_found)

\* (mutant) the run that reaches the last row is not recorded
count_lines_no_tail(fld) ==
    LET c == CountFrom(fld, 0, 0, <<>>, <<>>)
    IN IF RowFull(fld[GridHeight(fld)])
       THEN [c EXCEPT !.sequence_found = SubSeq(@, 1, Len(@) - 1)]
       ELSE c

count_lines(fld) == CountFrom(fld, 0, 0, <<>>, <<>>)

\* for row_idx in range(current_row_idx - 1, -1, -1):
\*     field[row_idx + 1] = field[row_idx]
\* make_row_empty(0)
ShiftDownOnto(fld, current_row_idx) ==
    MakeRowEmpty(
        [r \in 1..GridHeight(fld) |->
            IF r >= 2 /\ r <= current_row_idx + 1 THEN fld[r - 1] ELSE fld[r]],
        0)

RECURSIVE ClearFrom(_, _, _)
ClearFrom(fld, rows_found, i) ==
    IF i > Len(rows_found) THEN fld
    ELSE ClearFrom(ShiftDownOnto(fld, rows_found[i]), rows_found, i + 1)

\* (mutant) only the first full row is cleared
clear_lines_first_only(fld, rows_found) ==
    IF rows_found = <<>> THEN fld ELSE ShiftDownOnto(fld, rows_found[1])

clear_lines(fld, rows_found) == ClearFrom(fld, rows_found, 1)

(***************************************************************************)
(* State.  The active figure is a reference to a catalog entry             *)
(* (_random_figure returns the chosen entry itself), so the current key of *)
(* the active figure is the current key of that entry.                     *)
(***************************************************************************)
VARIABLES
    field,                            \* PhysicalInteractor.__field
    current_key,                      \* Figure.__current_key of each catalog entry
    current_figure,                   \* PhysicalInteractor.__current_figure
    figure_position,                  \* PhysicalInteractor.__figure_position
    lines_scored,                     \* PhysicalInteractor.__lines_scored
    event_register,                   \* MovementManager.__event_register
    frames_per_falling_move_counter,  \* MovementManager._frames_per_falling_move_counter
    falling_speed_in_lines_per_sec,   \* MovementManager.__falling_speed_in_lines_per_sec
    game_is_alive,                    \* MovementManager.__game_is_alive
    raised,                           \* the exception that left the last call
    acted,                            \* the event the last step dispatched
    locked,                           \* the last step ran the lock sequence
    spawn_try,                        \* the position the last step's spawn tried
    since_gravity,                    \* ticks since the last gravity move
    placements,                       \* whether place_figure was called, and returned
    p_pc,                             \* where _physics_mainloop stands
    g_pc,                             \* where _graphics_mainloop stands
    pop_ret,                          \* pop_scored_lines: its local ret
    rendered,                         \* how the last str(movement_manager) ended
    appended,                         \* clear-event records appended so far
    returned,                         \* records returned by pop_scored_lines so far
    placed,                           \* the figure grid and position last validated
    catalog,                          \* MovementManager.__available_figures, as ids
    runs_returned,                    \* <<what the last count_and_clear_lines returned>>
    mapped,                           \* <<what the last map_figure_to_field returned>>
    key_value,                        \* a Key, as next and prev returned it last
    made,                             \* the FieldState / FigureState last constructed
    figure_objects,                   \* the Figure objects; the first is the builder's
    results,                          \* the objects get_result has returned
    row_objects,                      \* the row lists of every field and grid
    field_rows                        \* per holder, the row objects its list links

vars == <<field, current_key, current_figure, figure_position, lines_scored,
          event_register, frames_per_falling_move_counter,
          falling_speed_in_lines_per_sec, game_is_alive, raised,
          acted, locked, spawn_try, since_gravity, placements,
          p_pc, g_pc, pop_ret, rendered, appended, returned, placed,
          catalog, runs_returned, mapped,
          key_value, made, figure_objects, results,
          row_objects, field_rows>>

\* what only the interleaved tasks of the application use
taskVars == <<p_pc, g_pc, pop_ret, rendered, appended, returned, placed>>

\* what the game and the application leave as it is
\* what calls on the entities alone use
entityVars == <<key_value, made, figure_objects, results>>

\* which row objects exist and which list links which
shareVars == <<row_objects, field_rows>>

callVars == <<catalog, runs_returned, mapped, entityVars, shareVars>>

\* The state as one record, threaded through the operators below.
State ==
    [field |-> field, key |-> current_key, fig |-> current_figure,
     pos |-> figure_position, scored |-> lines_scored,
     register |-> event_register,
     counter |-> frames_per_falling_move_counter,
     alive |-> game_is_alive, exc |-> raised, acted |-> acted,
     locked |-> locked, spawn_try |-> spawn_try,
     since_gravity |-> since_gravity, placements |-> placements]

Commit(s) ==
    /\ field' = s.field
    /\ current_key' = s.key
    /\ current_figure' = s.fig
    /\ figure_position' = s.pos
    /\ lines_scored' = s.scored
    /\ event_register' = s.register
    /\ frames_per_falling_move_counter' = s.counter
    /\ game_is_alive' = s.alive
    /\ raised' = s.exc
    /\ acted' = s.acted
    /\ locked' = s.locked
    /\ spawn_try' = s.spawn_try
    /\ since_gravity' = s.since_gravity
    /\ placements' = s.placements
    /\ UNCHANGED falling_speed_in_lines_per_sec

PhysicException == {"OutOfBorderException", "ObjectIntersectionException"}

\* Figure.get_current_state of the active figure
CurrentState(s) == built_figures[s.fig][s.key[s.fig]]

\* get_current_figure / get_current_figure_pos raise ValueError when unset
NotReady(s) == s.fig = NoFigure \/ s.pos = None

(***************************************************************************)
(* PhysicalInteractor.                                                     *)
(***************************************************************************)
\* (mutant) a figure that validates is written into the field
place_figure_stamping(s, figure, coords) ==
    LET s1 == [s EXCEPT !.fig = figure, !.placements.called = TRUE]
    IN Let(ValidatePosition(s1.field, CurrentState(s1), coords),
           LAMBDA e : IF e = "none"
                      THEN [s1 EXCEPT !.pos = coords,
                                      !.placements.succeeded = TRUE,
                                      !.field = FieldUpdate(s1.field,
                                                            CurrentState(s1),
                                                            coords).field]
                      ELSE [s1 EXCEPT !.exc = e])

\* The figure is stored first; the position only when it validates.
place_figure(s, figure, coords) ==
    LET s1 == [s EXCEPT !.fig = figure, !.placements.called = TRUE]
    IN Let(ValidatePosition(s1.field, CurrentState(s1), coords),
           LAMBDA e : IF e = "none"
                      THEN [s1 EXCEPT !.pos = coords,
                                      !.placements.succeeded = TRUE]
                      ELSE [s1 EXCEPT !.exc = e])

\* Figure.change_state_by_key on the active figure
change_state_by_key(s, key) == [s EXCEPT !.key[s.fig] = key]

\* coords = deepcopy(self._figure_position); self._figure_position = coords
revalidate_position(s) ==
    Let(ValidatePosition(s.field, CurrentState(s), s.pos),
        LAMBDA e : IF e = "none" THEN s ELSE [s EXCEPT !.exc = e])

\* The key is switched first; the unchanged position is then revalidated.
\* The _current_figure getter raises before anything is changed, the
\* _figure_position getter after the key was switched.
change_figure_state(s, key) ==
    IF s.fig = NoFigure THEN [s EXCEPT !.exc = "ValueError"]
    ELSE IF s.pos = None
         THEN [change_state_by_key(s, key) EXCEPT !.exc = "ValueError"]
    ELSE revalidate_position(change_state_by_key(s, key))

\* (mutant) the list is appended to the record even when it is empty
count_and_clear_lines_always_appends(s) ==
    Let(count_lines(s.field),
        LAMBDA c : [s EXCEPT !.scored = Append(@, c.sequence_found),
                             !.field = clear_lines(s.field, c.rows_found)])

count_and_clear_lines(s) ==
    Let(count_lines(s.field),
        LAMBDA c : [s EXCEPT !.scored = IF c.sequence_found /= <<>>
                                        THEN Append(@, c.sequence_found)
                                        ELSE @,
                             !.field = clear_lines(s.field, c.rows_found)])

\* the getters of the figure and the position raise ValueError when unset
update_field_state(s) ==
    IF NotReady(s) THEN [s EXCEPT !.exc = "ValueError"]
    ELSE Let(FieldUpdate(s.field, CurrentState(s), s.pos),
             LAMBDA u : [s EXCEPT !.field = u.field, !.exc = u.exc])

(***************************************************************************)
(* MovementManager: the movements.                                         *)
(***************************************************************************)
\* (mutant) the figure is reported blocked without the move being tried
move_down_always_blocked(s) ==
    IF NotReady(s) THEN [s EXCEPT !.exc = "ValueError"]
    ELSE [s EXCEPT !.exc = "FigureIsToBeAppended"]

move_down(s) ==
    IF NotReady(s) THEN [s EXCEPT !.exc = "ValueError"]
    ELSE Let(place_figure(s, s.fig, <<s.pos[1], s.pos[2] + 1>>),
             LAMBDA r : IF r.exc \in PhysicException
                        THEN [r EXCEPT !.exc = "FigureIsToBeAppended"]
                        ELSE r)

move_sideways(s, lines) ==
    IF NotReady(s) THEN [s EXCEPT !.exc = "ValueError"]
    ELSE Let(place_figure(s, s.fig, <<s.pos[1] + lines, s.pos[2]>>),
             LAMBDA r : IF r.exc \in PhysicException
                        THEN [r EXCEPT !.exc = "none"]
                        ELSE r)

move_right(s) == move_sideways(s, 1)

\* (mutant) two columns at once
move_left_by_two(s) == move_sideways(s, -2)

move_left(s) == move_sideways(s, -1)

\* while True: self._move_down().  A figure that has moved down more often
\* than the field has rows has no opaque cell and never leaves the loop.
RECURSIVE AccelerateFrom(_, _)
AccelerateFrom(s, moves) ==
    IF moves > GridHeight(s.field) THEN [s EXCEPT !.exc = "Diverges"]
    ELSE Let(move_down(s),
             LAMBDA r : IF r.exc = "none" THEN AccelerateFrom(r, moves + 1)
                        ELSE r)

\* (mutant) one down-move, then the lock
accelerate_once(s) ==
    Let(move_down(s),
        LAMBDA r : IF r.exc = "none"
                   THEN [r EXCEPT !.exc = "FigureIsToBeAppended"]
                   ELSE r)

accelerate(s) == AccelerateFrom(s, 0)

\* (mutant) the exception is swallowed and the key is not put back
revert_rotation_dropped(r, current_figure_key) ==
    IF r.exc \in PhysicException THEN [r EXCEPT !.exc = "none"] ELSE r

\* the except branches of _rotate_figure: revert to the key held before
revert_rotation(r, current_figure_key) ==
    IF r.exc \in PhysicException
    THEN change_figure_state([r EXCEPT !.exc = "none"], current_figure_key)
    ELSE r

rotate_figure(s) ==
    IF NotReady(s) THEN [s EXCEPT !.exc = "ValueError"]
    ELSE LET current_figure_key == s.key[s.fig]
         IN Let(change_figure_state(s, KeyNext(current_figure_key)),
                LAMBDA r : revert_rotation(r, current_figure_key))

\* ActionEventMapper._storage
get_action_by_event(e, s) ==
    CASE e = "MOVE_LEFT" -> move_left(s)
      [] e = "MOVE_RIGHT" -> move_right(s)
      [] e = "SPEED_UP" -> accelerate(s)
      [] e = "ROTATE_FIGURE" -> rotate_figure(s)
      [] OTHER -> s

(***************************************************************************)
(* MovementManager: spawning.                                              *)
(***************************************************************************)
\* (mutant) the range runs one column further
SpawnColumnsInclusive(s, figure) ==
    LET figure_width == GridWidth(built_figures[figure][SpawnKey])
        field_width == GridWidth(s.field)
    IN IF field_width - figure_width + 1 > 0
       THEN 0..(field_width - figure_width + 1)
       ELSE {0}

\* range(0, field_width - figure_width + 1), or (0, 0) when it is empty
SpawnColumns(s, figure) ==
    LET figure_width == GridWidth(built_figures[figure][SpawnKey])
        field_width == GridWidth(s.field)
    IN IF field_width - figure_width + 1 > 0
       THEN 0..(field_width - figure_width)
       ELSE {0}

\* (mutant) the except branch forgets to end the game
spawn_figure_stays_alive(s, rand_figure, random_x) ==
    LET s1 == [s EXCEPT !.key[rand_figure] = SpawnKey,
                        !.spawn_try = <<random_x, 0>>]
    IN Let(place_figure(s1, rand_figure, <<random_x, 0>>),
           LAMBDA r : IF r.exc = "ObjectIntersectionException"
                      THEN [r EXCEPT !.exc = "none"]
                      ELSE r)

\* Only ObjectIntersectionException is caught.
spawn_figure(s, rand_figure, random_x) ==
    LET s1 == [s EXCEPT !.key[rand_figure] = SpawnKey,
                        !.spawn_try = <<random_x, 0>>]
    IN Let(place_figure(s1, rand_figure, <<random_x, 0>>),
           LAMBDA r : IF r.exc = "ObjectIntersectionException"
                      THEN [r EXCEPT !.alive = FALSE, !.exc = "none"]
                      ELSE r)

(***************************************************************************)
(* MovementManager.tick_game.                                              *)
(***************************************************************************)
CounterCap == PHYSICS_FRAME_RATE + CounterSlack

FoldCounter(c) == IF c > CounterCap THEN CounterCap - 1 ELSE c

FoldSince(n) == IF n > PHYSICS_FRAME_RATE THEN PHYSICS_FRAME_RATE + 1 ELSE n

\* self._frames_per_falling_move_counter += 1
count_frame(s) ==
    [s EXCEPT !.counter = FoldCounter(@ + 1),
              !.since_gravity = FoldSince(@ + 1),
              !.locked = FALSE,
              !.spawn_try = None,
              !.exc = "none"]

\* (mutant) the register is read and not reset
take_event_keep(s) == [s EXCEPT !.acted = s.register]

\* e = self._event_register; self._event_register = neutral
take_event(s) ==
    [s EXCEPT !.acted = s.register, !.register = get_neutral_event]

\* the try block: counter, event, action, gravity
gravity(s1) ==
    IF s1.exc /= "none" THEN s1
    ELSE IF falling_speed_in_lines_per_sec = 0
         THEN [s1 EXCEPT !.exc = "ZeroDivisionError"]
    ELSE IF s1.counter =
              PHYSICS_FRAME_RATE \div falling_speed_in_lines_per_sec
         THEN move_down([s1 EXCEPT !.counter = 0, !.since_gravity = 0])
    ELSE s1

tick_try(s) ==
    Let(take_event(count_frame(s)),
        LAMBDA s0 : Let(get_action_by_event(s0.acted, s0),
                        LAMBDA s1 : gravity(s1)))

\* (mutant) the figure is stamped and the full rows are left standing
tick_lock_stamp_only(s) ==
    update_field_state([s EXCEPT !.exc = "none", !.locked = TRUE])

\* (mutant) the rows are cleared before the figure is stamped
tick_lock_clear_first(s) ==
    Let(count_and_clear_lines([s EXCEPT !.exc = "none", !.locked = TRUE]),
        LAMBDA c : update_field_state(c))

\* except FigureIsToBeAppended: stamp and clear; the spawn follows
tick_lock(s) ==
    Let(update_field_state([s EXCEPT !.exc = "none", !.locked = TRUE]),
        LAMBDA u : IF u.exc /= "none" THEN u ELSE count_and_clear_lines(u))

lock_if_blocked(r) ==
    IF r.exc = "FigureIsToBeAppended" THEN tick_lock(r) ELSE r

tick_until_spawn(s) == Let(tick_try(s), LAMBDA r : lock_if_blocked(r))

Spawns(r) == r.locked /\ r.exc = "none"

(***************************************************************************)
(* The operations, each one atomic, as the physics loop and the other      *)
(* tasks call them.                                                        *)
(***************************************************************************)
Started == current_figure /= NoFigure

\* Who holds a list of rows: the Field() of PhysicalInteractor.__init__'s
\* default argument, two interactors built without a field, a nested list
\* of a caller, and the interactor built from it.
Holders == {"default", "first", "second", "grid", "built"}

\* [[0] * width for _ in range(height)]: height new row objects after those
\* that exist
NewRows(objects, grid) ==
    [objects |-> objects \o grid,
     rows |-> [i \in 1..Len(grid) |-> Len(objects) + i]]

\* initial_field: IFieldState = Field(), evaluated once, when the class
\* body is executed
default_field == NewRows(<<>>, EmptyGrid(FIELD_WIDTH, FIELD_HEIGHT))

\* The manager as constructed over a field, with the figures handed to
\* set_available_figures and the interactor's initial_scored_lines.
Constructed(initial_field, figures, initial_scored_lines) ==
    /\ field = initial_field
    /\ current_key = [f \in figures |-> KeyItems[1]]
    /\ current_figure = NoFigure
    /\ figure_position = None
    /\ lines_scored = initial_scored_lines
    /\ event_register = get_neutral_event
    /\ frames_per_falling_move_counter = 0
    /\ falling_speed_in_lines_per_sec = DEFAULT_SPEED
    /\ game_is_alive = TRUE
    /\ raised = "none"
    /\ acted = "none"
    /\ locked = FALSE
    /\ spawn_try = None
    /\ since_gravity = 0
    /\ placements = [called |-> FALSE, succeeded |-> FALSE]
    /\ p_pc = "start"
    /\ g_pc = "sleep"
    /\ pop_ret = <<>>
    /\ rendered = "none"
    /\ appended = 0
    /\ returned = 0
    /\ placed = None
    /\ catalog = figures
    /\ runs_returned = <<>>
    /\ mapped = <<>>
    /\ key_value = KeyItems[1]
    /\ made = <<>>
    /\ figure_objects = <<Figure(FALSE, "None")>>
    /\ results = <<>>
    /\ row_objects = default_field.objects
    /\ field_rows = [holder \in Holders |->
                        IF holder = "default" THEN default_field.rows
                        ELSE <<>>]

Init == Constructed(EmptyGrid(FIELD_WIDTH, FIELD_HEIGHT), FigureIds, <<>>)

StartGame ==
    /\ ~Started
    /\ raised = "none"
    /\ \E rand_figure \in catalog :
        \E random_x \in SpawnColumns(State, rand_figure) :
            \E s \in {spawn_figure(State, rand_figure, random_x)} :
                Commit(s)
    /\ UNCHANGED taskVars
    /\ UNCHANGED callVars

TickGame ==
    /\ Started
    /\ raised = "none"
    /\ Len(lines_scored) < MaxScored
    /\ \E r \in {tick_until_spawn(State)} :
          IF Spawns(r)
          THEN \E rand_figure \in catalog :
                 \E random_x \in SpawnColumns(r, rand_figure) :
                    \E s \in {spawn_figure(r, rand_figure, random_x)} :
                        Commit(s)
          ELSE Commit(r)
    /\ UNCHANGED taskVars
    /\ UNCHANGED callVars

\* A step that is no tick and no spawn dispatches, locks and spawns nothing.
NoTickHistory ==
    /\ acted' = "none"
    /\ locked' = FALSE
    /\ spawn_try' = None
    /\ UNCHANGED <<since_gravity, placements>>

PushEvent(event) ==
    /\ event_register' = event
    /\ NoTickHistory
    /\ UNCHANGED <<field, current_key, current_figure, figure_position,
                   lines_scored, frames_per_falling_move_counter,
                   falling_speed_in_lines_per_sec, game_is_alive, raised>>
    /\ UNCHANGED taskVars
    /\ UNCHANGED callVars

\* KeyEventMapper._storage: the characters that map to an event
KeyEventStorage ==
    [a |-> "MOVE_LEFT", d |-> "MOVE_RIGHT", s |-> "SPEED_UP",
     w |-> "ROTATE_FIGURE", x |-> "PAUSE_GAME", z |-> "UNPAUSE_GAME"]

\* key.char or key.name of the keys pressed: the mapped ones, a character
\* and a named key that are not mapped
PressedKeys == DOMAIN KeyEventStorage \cup {"q", "space"}

\* return self._storage[name_or_char]; except KeyError: return neutral
get_event_by_key_or_neutral(key) ==
    IF key \in DOMAIN KeyEventStorage THEN KeyEventStorage[key]
    ELSE get_neutral_event

\* KeyboardHandlers.on_press: the event of the key is pushed, whichever
OnPress(key) == PushEvent(get_event_by_key_or_neutral(key))

PopScoredLines ==
    /\ lines_scored' = <<>>
    /\ NoTickHistory
    /\ UNCHANGED <<field, current_key, current_figure, figure_position,
                   event_register, frames_per_falling_move_counter,
                   falling_speed_in_lines_per_sec, game_is_alive, raised>>
    /\ UNCHANGED taskVars
    /\ UNCHANGED callVars

\* The events the input task pushes here: every mapped key but UNPAUSE_GAME,
\* which is dispatched exactly as PAUSE_GAME is, and the neutral event of an
\* unmapped key.
PushInputs == Event \ {"UNPAUSE_GAME"}

Next ==
    \/ StartGame
    \/ TickGame
    \/ \E event \in PushInputs : PushEvent(event)
    \/ PopScoredLines

Spec == Init /\ [][Next]_vars

\* The physics loop keeps calling tick_game and the presentation loop keeps
\* draining the record (app.py).
FairSpec == Spec /\ WF_vars(TickGame) /\ WF_vars(PopScoredLines)

(***************************************************************************)
(* The same game over a field one row too low for the L figure's spawn     *)
(* rotation: cfg.FIELD_HEIGHT is free, and no top-row position holds the   *)
(* grid's opaque rows.                                                     *)
(***************************************************************************)
ShallowHeight == GridHeight(L_figure[SpawnKey]) - 1

InitShallow ==
    Constructed(EmptyGrid(FIELD_WIDTH, ShallowHeight), FigureIds, <<>>)

SpecShallow == InitShallow /\ [][Next]_vars

(***************************************************************************)
(* The same game with the blank figure in the catalog.  Nothing stops a    *)
(* figure without opaque cells, so the ticks are followed while it is      *)
(* within MaxDrift cells of the field.                                     *)
(***************************************************************************)
MaxDrift == 2

InReach ==
    IF figure_position = None THEN TRUE
    ELSE /\ figure_position[1] >= -MaxDrift
         /\ figure_position[1] <= GridWidth(field) + MaxDrift
         /\ figure_position[2] <= GridHeight(field) + MaxDrift

BlankCatalog == {1, Len(built_figures)}

InitBlank ==
    Constructed(EmptyGrid(FIELD_WIDTH, FIELD_HEIGHT), BlankCatalog, <<>>)

TickGameInReach == InReach /\ TickGame

NextBlank ==
    \/ StartGame
    \/ TickGameInReach
    \/ \E event \in PushInputs : PushEvent(event)
    \/ PopScoredLines

SpecBlank == InitBlank /\ [][NextBlank]_vars

(***************************************************************************)
(* count_and_clear_lines and pop_scored_lines called on their own, as the  *)
(* tests call them: over every field of ClearHeight rows, with and without *)
(* an initial record.                                                      *)
(***************************************************************************)
ClearHeight == 3

RECURSIVE AllRows(_)
AllRows(w) ==
    IF w = 0 THEN {<<>>}
    ELSE {Append(row, v) : row \in AllRows(w - 1), v \in {0, 1}}

RECURSIVE AllGrids(_, _)
AllGrids(w, h) ==
    IF h = 0 THEN {<<>>}
    ELSE {Append(g, row) : g \in AllGrids(w, h - 1), row \in AllRows(w)}

\* initial_scored_lines of PhysicalInteractor.__init__
InitialScored == {<<>>, <<<<1>>>>}

InitLines ==
    \E initial_field \in AllGrids(FIELD_WIDTH, ClearHeight) :
        \E initial_scored_lines \in InitialScored :
            Constructed(initial_field, FigureIds, initial_scored_lines)

\* count_and_clear_lines: the field, the record, and the list it returns
ClearCall ==
    /\ \E r \in {count_and_clear_lines(State)} : Commit(r)
    /\ runs_returned' = <<count_lines(field).sequence_found>>
    /\ UNCHANGED <<taskVars, catalog, mapped, entityVars, shareVars>>

\* (mutant) the list is returned after the record was emptied in place
pop_scored_lines_emptied(s) ==
    [ret |-> <<>>, state |-> [s EXCEPT !.scored = <<>>]]

\* ret = copy.copy(self.lines_scored); lines_scored = []; return ret
pop_scored_lines(s) ==
    [ret |-> s.scored, state |-> [s EXCEPT !.scored = <<>>]]

PopCall ==
    /\ \E r \in {pop_scored_lines(State)} :
          /\ Commit(r.state)
          /\ pop_ret' = r.ret
    /\ UNCHANGED <<p_pc, g_pc, rendered, appended, returned, placed>>
    /\ UNCHANGED callVars

NextLines ==
    \/ ClearCall
    \/ PopCall

SpecLines == InitLines /\ [][NextLines]_vars

(***************************************************************************)
(* place_figure, change_figure_state and map_figure_to_field called on     *)
(* their own, in any order: over every field of ClearHeight                *)
(* rows under an empty top row, with positions up to MaxOffset cells off   *)
(* the field, and with the figure whose grids have transparent cells.      *)
(***************************************************************************)
MaxOffset == 1

PlaceCatalog == {Len(available_figures)}

PlaceCoords ==
    ((-MaxOffset)..(FIELD_WIDTH - 1 + MaxOffset))
        \X ((-MaxOffset)..(ClearHeight - 1 + MaxOffset))

InitPlace ==
    \E lower_rows \in AllGrids(FIELD_WIDTH, ClearHeight - 1) :
        Constructed(EmptyGrid(FIELD_WIDTH, 1) \o lower_rows, PlaceCatalog,
                    <<>>)

\* the state a call starts from: no exception is pending
Called == [State EXCEPT !.exc = "none"]

PlaceCall(figure, coords) ==
    /\ \E r \in {place_figure(Called, figure, coords)} : Commit(r)
    /\ UNCHANGED taskVars
    /\ UNCHANGED callVars

ChangeCall(key) ==
    /\ \E r \in {change_figure_state(Called, key)} : Commit(r)
    /\ UNCHANGED taskVars
    /\ UNCHANGED callVars

\* ret = copy.deepcopy(self._field), then ret[row_idx + y][col_idx + x] =
\* point for the opaque points in row-major order.  A list index below zero
\* counts from the end; one past either end raises IndexError.
RECURSIVE MapFrom(_, _, _, _)
MapFrom(ret, fs, coords, k) ==
    LET w == GridWidth(fs)
        row_idx == k \div w
        col_idx == k % w
        row == row_idx + coords[2]
        col == col_idx + coords[1]
        at_row == IF row < 0 THEN row + GridHeight(ret) ELSE row
        at_col == IF col < 0 THEN col + GridWidth(ret) ELSE col
    IN IF k >= GridHeight(fs) * w THEN [ret |-> <<ret>>, exc |-> "none"]
       ELSE IF Cell(fs, row_idx, col_idx) = 0
            THEN MapFrom(ret, fs, coords, k + 1)
       ELSE IF ~InField(ret, at_col, at_row)
            THEN [ret |-> <<>>, exc |-> "IndexError"]
       ELSE MapFrom([ret EXCEPT ![at_row + 1][at_col + 1] =
                                    Cell(fs, row_idx, col_idx)],
                    fs, coords, k + 1)

\* (mutant) the figure is drawn into the stored field
map_to_stored_field(s) ==
    IF NotReady(s) THEN [ret |-> <<>>, state |-> [s EXCEPT !.exc = "ValueError"]]
    ELSE Let(MapFrom(s.field, CurrentState(s), s.pos, 0),
             LAMBDA m : [ret |-> m.ret,
                         state |-> [s EXCEPT !.exc = m.exc,
                                             !.field = IF m.ret = <<>> THEN @
                                                       ELSE m.ret[1]]])

\* map_figure_to_field: what it returns and the state it leaves
mapped_field(s) ==
    IF NotReady(s) THEN [ret |-> <<>>, state |-> [s EXCEPT !.exc = "ValueError"]]
    ELSE Let(MapFrom(s.field, CurrentState(s), s.pos, 0),
             LAMBDA m : [ret |-> m.ret, state |-> [s EXCEPT !.exc = m.exc]])

MapCall ==
    /\ \E m \in {mapped_field(Called)} :
          /\ Commit(m.state)
          /\ mapped' = m.ret
    /\ UNCHANGED <<taskVars, catalog, runs_returned, entityVars, shareVars>>

UpdateCall ==
    /\ \E r \in {update_field_state(Called)} : Commit(r)
    /\ UNCHANGED taskVars
    /\ UNCHANGED callVars

NextPlace ==
    \/ \E figure \in catalog : \E coords \in PlaceCoords :
          PlaceCall(figure, coords)
    \/ \E key \in Key : ChangeCall(key)
    \/ MapCall

SpecPlace == InitPlace /\ [][NextPlace]_vars

\* the same calls with update_field_state among them
NextStamp ==
    \/ \E figure \in catalog : \E coords \in PlaceCoords :
          PlaceCall(figure, coords)
    \/ \E key \in Key : ChangeCall(key)
    \/ UpdateCall

SpecStamp == InitPlace /\ [][NextStamp]_vars

(***************************************************************************)
(* The entities called on their own: Key.next and Key.prev, and the        *)
(* FieldState and FigureState constructors over every sequence of up to    *)
(* MaxRows items, an item being a row of up to MaxCols cells or an integer *)
(* (as in a flat sequence).                                                *)
(***************************************************************************)
MaxRows == 2

MaxCols == 2

\* what no call on an entity touches
gameVars ==
    <<field, current_key, current_figure, figure_position, lines_scored,
      event_register, frames_per_falling_move_counter,
      falling_speed_in_lines_per_sec, game_is_alive, acted, locked,
      spawn_try, since_gravity,
                   placements>>

KeyNextCall ==
    /\ key_value' = KeyNext(key_value)
    /\ raised' = "none"
    /\ UNCHANGED <<gameVars, taskVars, catalog, runs_returned, mapped,
                   made, figure_objects, results, shareVars>>

KeyPrevCall ==
    /\ key_value' = KeyPrev(key_value)
    /\ raised' = "none"
    /\ UNCHANGED <<gameVars, taskVars, catalog, runs_returned, mapped,
                   made, figure_objects, results, shareVars>>

RowItem(cells) == [is_row |-> TRUE, cells |-> cells]

IntItem == [is_row |-> FALSE, cells |-> <<>>]

RECURSIVE RowsUpTo(_)
RowsUpTo(n) == IF n = 0 THEN {<<>>} ELSE RowsUpTo(n - 1) \cup AllRows(n)

GivenItems == {IntItem} \cup {RowItem(cells) : cells \in RowsUpTo(MaxCols)}

RECURSIVE StatesUpTo(_)
StatesUpTo(n) ==
    IF n = 0 THEN {<<>>}
    ELSE StatesUpTo(n - 1) \cup
         {Append(state, item) : state \in StatesUpTo(n - 1),
                                item \in GivenItems}

GivenStates == StatesUpTo(MaxRows)

\* IFigureState._validate_nested_iterable: state[0] of an empty sequence
\* and len() of an integer raise TypeError, an empty first row ValueError.
\* Only state[0] is looked at.
validate_nested_iterable(state) ==
    IF state = <<>> THEN "TypeError"
    ELSE IF ~state[1].is_row THEN "TypeError"
    ELSE IF state[1].cells = <<>> THEN "ValueError"
    ELSE "none"

\* _validate_dimensions with a state given: state[0][0] must exist.  An
\* IndexError becomes ValueError; an integer is not subscriptable.
validate_dimensions(state) ==
    IF state = <<>> THEN "ValueError"
    ELSE IF ~state[1].is_row THEN "TypeError"
    ELSE IF state[1].cells = <<>> THEN "ValueError"
    ELSE "none"

\* (mutant) every item has to be a row as long as the first
validate_dimensions_all_rows(state) ==
    IF state = <<>> THEN "ValueError"
    ELSE IF \E i \in 1..Len(state) : ~state[i].is_row THEN "TypeError"
    ELSE IF \E i \in 1..Len(state) :
               \/ state[i].cells = <<>>
               \/ Len(state[i].cells) /= Len(state[1].cells)
         THEN "ValueError"
    ELSE "none"

\* FieldState(state): list comes first in its bases, so __new__ validates
\* nothing and __init__ calls _validate_dimensions
FieldState(state) == validate_dimensions(state)

\* FigureState(state): IFigureState.__new__, then __init__
FigureState(state) ==
    IF validate_nested_iterable(state) /= "none"
    THEN validate_nested_iterable(state)
    ELSE validate_dimensions(state)

Constructs(cls, state, exc) ==
    /\ raised' = exc
    /\ made' = IF exc = "none" THEN <<[cls |-> cls, state |-> state]>>
               ELSE <<>>
    /\ UNCHANGED <<gameVars, taskVars, catalog, runs_returned, mapped,
                   key_value, figure_objects, results, shareVars>>

FieldStateCall(state) == Constructs("FieldState", state, FieldState(state))

FigureStateCall(state) == Constructs("FigureState", state, FigureState(state))

NextShape ==
    \/ KeyNextCall
    \/ KeyPrevCall
    \/ \E state \in GivenStates : FieldStateCall(state)
    \/ \E state \in GivenStates : FigureStateCall(state)

SpecShape == Init /\ [][NextShape]_vars

(***************************************************************************)
(* FigureBuilder called on its own.  The builder keeps one Figure object   *)
(* for its whole life (object 1) and writes to it in place; get_result     *)
(* hands out objects.  Grids are one column wide and up to MaxRows high.   *)
(***************************************************************************)
MaxResults == 1

\* the states handed to set_state
BuilderStates ==
    {<<>>, <<RowItem(<<1>>)>>}

\* FigureState(width=, height=)
EmptyState(width, height) ==
    [r \in 1..height |-> RowItem([c \in 1..width |-> 0])]

\* the builder's own Figure
builder_figure == 1

Builder == [objects |-> figure_objects, results |-> results, exc |-> "none"]

BuilderCommit(b) ==
    /\ figure_objects' = b.objects
    /\ results' = b.results
    /\ raised' = b.exc
    /\ UNCHANGED <<gameVars, taskVars, catalog, runs_returned, mapped,
                   key_value, made, shareVars>>

\* the _figure getter raises while states is None
NotReset(b) == ~b.objects[builder_figure].has_states

\* reset writes a new dict, Key(1) and an empty state per key into the
\* builder's figure
reset(b, width, height) ==
    [b EXCEPT !.objects[builder_figure] =
                  [has_states |-> TRUE,
                   states |-> [k \in Key |-> EmptyState(width, height)],
                   current_key |-> KeyItems[1]]]

\* state = FigureState(state); self._figure[key] = state
set_state(b, key, state) ==
    IF FigureState(state) /= "none" THEN [b EXCEPT !.exc = FigureState(state)]
    ELSE IF NotReset(b) THEN [b EXCEPT !.exc = "ValueError"]
    ELSE [b EXCEPT !.objects[builder_figure].states[key] = state]

\* (mutant) the builder's own figure is handed out
get_result_shared(b) ==
    IF NotReset(b) THEN [b EXCEPT !.exc = "ValueError"]
    ELSE [b EXCEPT !.results = Append(@, builder_figure)]

\* (mutant) the figure is copied whether or not the builder was reset
get_result_unguarded(b) ==
    [b EXCEPT !.objects = Append(@, @[builder_figure]),
              !.results = Append(@, Len(b.objects) + 1)]

\* return copy.deepcopy(self._figure): a new object with the same contents
get_result(b) ==
    IF NotReset(b) THEN [b EXCEPT !.exc = "ValueError"]
    ELSE [b EXCEPT !.objects = Append(@, @[builder_figure]),
                   !.results = Append(@, Len(b.objects) + 1)]

ResetCall(width, height) == BuilderCommit(reset(Builder, width, height))

SetStateCall(key, state) == BuilderCommit(set_state(Builder, key, state))

GetResultCall ==
    /\ Len(results) < MaxResults
    /\ BuilderCommit(get_result(Builder))

NextBuild ==
    \/ \E height \in 1..MaxRows : ResetCall(1, height)
    \/ \E key \in Key : \E state \in BuilderStates : SetStateCall(key, state)
    \/ GetResultCall

SpecBuild == Init /\ [][NextBuild]_vars

(***************************************************************************)
(* The game over an empty field of every width up to FIELD_WIDTH, the      *)
(* widths no figure fits into included.                                    *)
(***************************************************************************)
InitWidths ==
    \E width \in 1..FIELD_WIDTH :
        Constructed(EmptyGrid(width, FIELD_HEIGHT), FigureIds, <<>>)

SpecWidths == InitWidths /\ [][Next]_vars

(***************************************************************************)
(* The game over a field that holds cells in its bottom row when the game  *)
(* starts: every bottom row that is not full.                              *)
(***************************************************************************)
InitHeaps ==
    \E bottom_row \in {row \in AllRows(FIELD_WIDTH) : ~RowFull(row)} :
        Constructed(EmptyGrid(FIELD_WIDTH, FIELD_HEIGHT - 1) \o <<bottom_row>>,
                    FigureIds, <<>>)

SpecHeaps == InitHeaps /\ [][Next]_vars

(***************************************************************************)
(* The game at every speed the manager is handed: __init__ assigns the     *)
(* speed through the setter before the game starts.                        *)
(***************************************************************************)
Speeds == (-1)..(PHYSICS_FRAME_RATE + 1)

\* if not isinstance(speed, int) or speed < 0: raise ValueError
falling_speed_setter(speed) == IF speed < 0 THEN "ValueError" ELSE "none"

SetSpeed(speed) ==
    /\ ~Started
    /\ raised = "none"
    /\ raised' = falling_speed_setter(speed)
    /\ falling_speed_in_lines_per_sec' =
          IF falling_speed_setter(speed) = "none" THEN speed
          ELSE falling_speed_in_lines_per_sec
    /\ NoTickHistory
    /\ UNCHANGED <<field, current_key, current_figure, figure_position,
                   lines_scored, event_register,
                   frames_per_falling_move_counter, game_is_alive>>
    /\ UNCHANGED taskVars
    /\ UNCHANGED callVars

NextSpeeds ==
    \/ \E speed \in Speeds : SetSpeed(speed)
    \/ Next

SpecSpeeds == Init /\ [][NextSpeeds]_vars

(***************************************************************************)
(* The interactor's accessors called between placements.  Each returns     *)
(* the private attribute through its property; the properties of the       *)
(* figure and of the position raise ValueError while the attribute is      *)
(* None.                                                                   *)
(***************************************************************************)
get_current_field_state(s) == "none"

get_current_figure(s) == IF s.fig = NoFigure THEN "ValueError" ELSE "none"

\* (mutant) the position is ready as soon as a figure is held
get_current_figure_pos_by_figure(s) == get_current_figure(s)

get_current_figure_pos(s) == IF s.pos = None THEN "ValueError" ELSE "none"

GetFieldCall ==
    /\ Commit([Called EXCEPT !.exc = get_current_field_state(Called)])
    /\ UNCHANGED taskVars
    /\ UNCHANGED callVars

GetFigureCall ==
    /\ Commit([Called EXCEPT !.exc = get_current_figure(Called)])
    /\ UNCHANGED taskVars
    /\ UNCHANGED callVars

GetPosCall ==
    /\ Commit([Called EXCEPT !.exc = get_current_figure_pos(Called)])
    /\ UNCHANGED taskVars
    /\ UNCHANGED callVars

NextAccess ==
    \/ \E figure \in catalog, coords \in PlaceCoords : PlaceCall(figure, coords)
    \/ GetFieldCall
    \/ GetFigureCall
    \/ GetPosCall

SpecAccess == InitPlace /\ [][NextAccess]_vars

(***************************************************************************)
(* Fields as lists of row objects.  Two interactors are built without a    *)
(* field, a caller builds a nested list and an interactor from it, and     *)
(* Field.update_field_state is then called on the interactors' fields.     *)
(***************************************************************************)
Interactors == {"first", "second", "built"}

ViewOf(objects, rows) == [i \in 1..Len(rows) |-> objects[rows[i]]]

\* list(field) of a holder: its rows as they read now
FieldOf(holder) == ViewOf(row_objects, field_rows[holder])

FieldOfNext(holder) == ViewOf(row_objects', field_rows'[holder])

\* self.__field = Field(state=val); FieldState.__init__ runs
\* super().__init__(state): a new list that links the rows of the given one
FieldStateFrom(rows) == rows

ShareCoords == (0..(FIELD_WIDTH - 1)) \X (0..(MaxRows - 1))

\* PhysicalInteractor()
InteractorCall(holder) ==
    /\ field_rows[holder] = <<>>
    /\ holder = "second" => field_rows["first"] /= <<>>
    /\ field_rows' =
          [field_rows EXCEPT ![holder] = FieldStateFrom(field_rows["default"])]
    /\ raised' = "none"
    /\ UNCHANGED row_objects
    /\ UNCHANGED <<gameVars, taskVars, catalog, runs_returned, mapped,
                   entityVars>>

\* grid = [[...], ...] in the caller
GridCall(grid) ==
    /\ field_rows["second"] /= <<>>
    /\ field_rows["grid"] = <<>>
    /\ \E n \in {NewRows(row_objects, grid)} :
          /\ row_objects' = n.objects
          /\ field_rows' = [field_rows EXCEPT !["grid"] = n.rows]
    /\ raised' = "none"
    /\ UNCHANGED <<gameVars, taskVars, catalog, runs_returned, mapped,
                   entityVars>>

\* PhysicalInteractor(initial_field=grid)
BuiltCall ==
    /\ field_rows["grid"] /= <<>>
    /\ field_rows["built"] = <<>>
    /\ field_rows' =
          [field_rows EXCEPT !["built"] = FieldStateFrom(field_rows["grid"])]
    /\ raised' = "none"
    /\ UNCHANGED row_objects
    /\ UNCHANGED <<gameVars, taskVars, catalog, runs_returned, mapped,
                   entityVars>>

\* Field.update_field_state on the field of an interactor:
\* self.state[row_idx + y][col_idx + x] = ... writes into the row object
ShareUpdateCall(holder, figure, coords) ==
    /\ field_rows["built"] /= <<>>
    /\ \E u \in {FieldUpdate(FieldOf(holder),
                              built_figures[figure][KeyItems[1]], coords)} :
          /\ row_objects' =
                [id \in 1..Len(row_objects) |->
                    IF \E i \in 1..Len(field_rows[holder]) :
                           field_rows[holder][i] = id
                    THEN u.field[CHOOSE i \in 1..Len(field_rows[holder]) :
                                     field_rows[holder][i] = id]
                    ELSE row_objects[id]]
          /\ raised' = u.exc
    /\ UNCHANGED field_rows
    /\ UNCHANGED <<gameVars, taskVars, catalog, runs_returned, mapped,
                   entityVars>>

NextShare ==
    \/ \E holder \in {"first", "second"} : InteractorCall(holder)
    \/ \E grid \in AllGrids(FIELD_WIDTH, MaxRows) : GridCall(grid)
    \/ BuiltCall
    \/ \E holder \in Interactors, figure \in FigureIds, coords \in ShareCoords :
          ShareUpdateCall(holder, figure, coords)

SpecShare == Init /\ [][NextShare]_vars

(***************************************************************************)
(* Field.make_row_empty called on its own, as the test calls it, over      *)
(* every field of ClearHeight rows and every index up to MaxOffset past    *)
(* either end.                                                             *)
(***************************************************************************)
RowIndexes == (-MaxOffset)..(ClearHeight - 1 + MaxOffset)

InitRows ==
    \E initial_field \in AllGrids(FIELD_WIDTH, ClearHeight) :
        Constructed(initial_field, FigureIds, <<>>)

\* (mutant) no range check: an index below zero counts from the end, as
\* list indexes do
make_row_empty_unchecked(fld, idx) ==
    IF idx >= GridHeight(fld) \/ idx < -GridHeight(fld)
    THEN [field |-> fld, exc |-> "IndexError"]
    ELSE [field |-> MakeRowEmpty(fld, idx % GridHeight(fld)), exc |-> "none"]

\* if isinstance(idx, int) and 0 <= idx < self.height: ...; return
\* raise ValueError
make_row_empty(fld, idx) ==
    IF 0 <= idx /\ idx < GridHeight(fld)
    THEN [field |-> MakeRowEmpty(fld, idx), exc |-> "none"]
    ELSE [field |-> fld, exc |-> "ValueError"]

MakeRowEmptyCall(idx) ==
    /\ \E r \in {make_row_empty(field, idx)} :
          Commit([Called EXCEPT !.field = r.field, !.exc = r.exc])
    /\ UNCHANGED taskVars
    /\ UNCHANGED callVars

NextRows == \E idx \in RowIndexes : MakeRowEmptyCall(idx)

SpecRows == InitRows /\ [][NextRows]_vars

(***************************************************************************)
(* The application's three tasks (app.py: start) interleaved statement by  *)
(* statement: nothing in the code guards the state they share.             *)
(***************************************************************************)
\* The physics loop stops taking ticks once this many clear-event records
\* have been appended.
MaxAppended == 1

Placement(s) == <<CurrentState(s), s.pos>>

\* how far the physics task's step got: crashed, about to spawn, or looping
PhysicsGoes(r) ==
    /\ Commit([r EXCEPT !.acted = "none"])
    /\ p_pc' = IF r.exc /= "none" THEN "crashed"
               ELSE IF Spawns(r) THEN "spawn" ELSE "loop"
    /\ appended' = appended + (Len(r.scored) - Len(lines_scored))
    /\ placed' = IF r.exc = "none" THEN Placement(r) ELSE placed
    /\ UNCHANGED <<g_pc, pop_ret, rendered, returned>>

\* _spawn_figure, up to place_figure's first statement:
\* _random_figure() and self._current_figure = figure
PSpawnFigure ==
    /\ p_pc \in {"start", "spawn"}
    /\ UNCHANGED callVars
    /\ \E rand_figure \in catalog :
          Commit([State EXCEPT !.key[rand_figure] = SpawnKey,
                               !.fig = rand_figure,
                               !.locked = FALSE])
    /\ p_pc' = "place"
    /\ UNCHANGED <<g_pc, pop_ret, rendered, appended, returned, placed>>

\* place_figure's second statement, self._figure_position = coords, and
\* the except branch of _spawn_figure
PSpawnPlace ==
    /\ p_pc = "place"
    /\ UNCHANGED callVars
    /\ \E random_x \in SpawnColumns(State, current_figure) :
          \E s \in {spawn_figure(State, current_figure, random_x)} :
              /\ Commit(s)
              /\ p_pc' = IF s.exc /= "none" THEN "crashed" ELSE "loop"
              /\ placed' = IF s.exc = "none" /\ s.alive
                           THEN Placement(s) ELSE placed
    /\ UNCHANGED <<g_pc, pop_ret, rendered, appended, returned>>

\* while self._movement_manager.game_is_alive
PLoop ==
    /\ p_pc = "loop"
    /\ UNCHANGED callVars
    /\ game_is_alive => appended < MaxAppended
    /\ p_pc' = IF game_is_alive THEN "read" ELSE "done"
    /\ UNCHANGED <<field, current_key, current_figure, figure_position,
                   lines_scored, event_register,
                   frames_per_falling_move_counter,
                   falling_speed_in_lines_per_sec, game_is_alive, raised,
                   acted, locked, spawn_try, since_gravity,
                   placements>>
    /\ UNCHANGED <<g_pc, pop_ret, rendered, appended, returned, placed>>

\* tick_game: the counter and e = self._event_register
PRead ==
    /\ p_pc = "read"
    /\ UNCHANGED callVars
    /\ Commit([count_frame(State) EXCEPT !.acted = event_register])
    /\ p_pc' = "reset"
    /\ UNCHANGED <<g_pc, pop_ret, rendered, appended, returned, placed>>

\* tick_game: self._event_register = neutral
PReset ==
    /\ p_pc = "reset"
    /\ UNCHANGED callVars
    /\ event_register' = get_neutral_event
    /\ p_pc' = "act"
    /\ UNCHANGED <<field, current_key, current_figure, figure_position,
                   lines_scored, frames_per_falling_move_counter,
                   falling_speed_in_lines_per_sec, game_is_alive, raised,
                   acted, locked, spawn_try, since_gravity,
                   placements>>
    /\ UNCHANGED <<g_pc, pop_ret, rendered, appended, returned, placed>>

\* tick_game: action(), the gravity step and the except branch up to the
\* spawn. A rotation stops after change_state_by_key, before the position
\* is revalidated.
PAct ==
    /\ p_pc = "act"
    /\ UNCHANGED callVars
    /\ IF acted = "ROTATE_FIGURE" /\ ~NotReady(State)
       THEN /\ Commit(change_state_by_key(State,
                                          KeyNext(current_key[current_figure])))
            /\ p_pc' = "rotated"
            /\ UNCHANGED <<g_pc, pop_ret, rendered, appended, returned,
                           placed>>
       ELSE \E s1 \in {get_action_by_event(acted, State)} :
              \E r \in {lock_if_blocked(gravity(s1))} : PhysicsGoes(r)

\* the rest of _rotate_figure, then the gravity step and the except branch
PRotated ==
    /\ p_pc = "rotated"
    /\ UNCHANGED callVars
    /\ \E s1 \in {revert_rotation(revalidate_position(State),
                                   KeyPrev(current_key[current_figure]))} :
          \E r \in {lock_if_blocked(gravity(s1))} : PhysicsGoes(r)

\* while self._movement_manager.game_is_alive (after the sleep)
GLoop ==
    /\ g_pc = "sleep"
    /\ UNCHANGED callVars
    /\ g_pc' = IF game_is_alive THEN "copy" ELSE "done"
    /\ UNCHANGED <<field, current_key, current_figure, figure_position,
                   lines_scored, event_register,
                   frames_per_falling_move_counter,
                   falling_speed_in_lines_per_sec, game_is_alive, raised,
                   acted, locked, spawn_try, since_gravity,
                   placements>>
    /\ UNCHANGED <<p_pc, pop_ret, rendered, appended, returned, placed>>

\* pop_scored_lines: ret = copy.copy(self.lines_scored)
GCopy ==
    /\ g_pc = "copy"
    /\ UNCHANGED callVars
    /\ pop_ret' = lines_scored
    /\ g_pc' = "flush"
    /\ UNCHANGED <<field, current_key, current_figure, figure_position,
                   lines_scored, event_register,
                   frames_per_falling_move_counter,
                   falling_speed_in_lines_per_sec, game_is_alive, raised,
                   acted, locked, spawn_try, since_gravity,
                   placements>>
    /\ UNCHANGED <<p_pc, rendered, appended, returned, placed>>

\* pop_scored_lines: self._physical_interactor.lines_scored = []; return ret
GFlush ==
    /\ g_pc = "flush"
    /\ UNCHANGED callVars
    /\ lines_scored' = <<>>
    /\ returned' = returned + Len(pop_ret)
    /\ pop_ret' = <<>>
    /\ g_pc' = "render"
    /\ UNCHANGED <<field, current_key, current_figure, figure_position,
                   event_register, frames_per_falling_move_counter,
                   falling_speed_in_lines_per_sec, game_is_alive, raised,
                   acted, locked, spawn_try, since_gravity,
                   placements>>
    /\ UNCHANGED <<p_pc, rendered, appended, placed>>

\* map_figure_to_field: how it ends on the state it reads. A list index
\* below zero counts from the end; one past either end raises IndexError.
map_figure_to_field(s) ==
    IF NotReady(s) THEN "ValueError"
    ELSE IF \E rc \in OpaqueCells(CurrentState(s)) :
              \/ rc[1] + s.pos[2] >= GridHeight(s.field)
              \/ rc[1] + s.pos[2] < -GridHeight(s.field)
              \/ rc[2] + s.pos[1] >= GridWidth(s.field)
              \/ rc[2] + s.pos[1] < -GridWidth(s.field)
         THEN "IndexError"
    ELSE IF Placement(s) /= placed THEN "unvalidated"
    ELSE "ok"

\* print(self._movement_manager)
GRender ==
    /\ g_pc = "render"
    /\ UNCHANGED callVars
    /\ rendered' = map_figure_to_field(State)
    /\ g_pc' = IF rendered' \in {"ValueError", "IndexError"}
               THEN "crashed" ELSE "sleep"
    /\ UNCHANGED <<field, current_key, current_figure, figure_position,
                   lines_scored, event_register,
                   frames_per_falling_move_counter,
                   falling_speed_in_lines_per_sec, game_is_alive, raised,
                   acted, locked, spawn_try, since_gravity,
                   placements>>
    /\ UNCHANGED <<p_pc, pop_ret, appended, returned, placed>>

\* KeyboardHandlers.on_press: push_event from the listener's task
KPush(event) ==
    /\ event_register' = event
    /\ UNCHANGED <<field, current_key, current_figure, figure_position,
                   lines_scored, frames_per_falling_move_counter,
                   falling_speed_in_lines_per_sec, game_is_alive, raised,
                   acted, locked, spawn_try, since_gravity,
                   placements>>
    /\ UNCHANGED taskVars
    /\ UNCHANGED callVars

TaskNext ==
    \/ PSpawnFigure
    \/ PSpawnPlace
    \/ PLoop
    \/ PRead
    \/ PReset
    \/ PAct
    \/ PRotated
    \/ GLoop
    \/ GCopy
    \/ GFlush
    \/ GRender
    \/ \E event \in PushInputs : KPush(event)

SpecConc == Init /\ [][TaskNext]_vars

(***************************************************************************)
(* Vocabulary of the properties, stated on grids without the operators     *)
(* above.                                                                  *)
(***************************************************************************)
ActiveGrid == built_figures[current_figure][current_key[current_figure]]

ActiveGridNext == built_figures[current_figure'][current_key'[current_figure']]

\* every opaque cell of grid at pos is inside fld and over an empty cell
Fits(fld, grid, pos) ==
    \A r \in 0..(Len(grid) - 1) : \A c \in 0..(Len(grid[1]) - 1) :
        grid[r + 1][c + 1] /= 0 =>
            /\ 0 <= c + pos[1] /\ c + pos[1] < Len(fld[1])
            /\ 0 <= r + pos[2] /\ r + pos[2] < Len(fld)
            /\ fld[r + pos[2] + 1][c + pos[1] + 1] = 0

\* some opaque cell of grid at pos lies over an occupied cell of fld
Overlaps(fld, grid, pos) ==
    \E r \in 0..(Len(grid) - 1) : \E c \in 0..(Len(grid[1]) - 1) :
        /\ grid[r + 1][c + 1] /= 0
        /\ 0 <= c + pos[1] /\ c + pos[1] < Len(fld[1])
        /\ 0 <= r + pos[2] /\ r + pos[2] < Len(fld)
        /\ fld[r + pos[2] + 1][c + pos[1] + 1] /= 0

Below(pos) == <<pos[1], pos[2] + 1>>

\* fld with the opaque cells of grid at pos occupied
Stamped(fld, grid, pos) ==
    [r \in 1..Len(fld) |-> [c \in 1..Len(fld[1]) |->
        IF /\ r - 1 - pos[2] \in 0..(Len(grid) - 1)
           /\ c - 1 - pos[1] \in 0..(Len(grid[1]) - 1)
           /\ grid[r - pos[2]][c - pos[1]] /= 0
        THEN grid[r - pos[2]][c - pos[1]]
        ELSE fld[r][c]]]

IsFullRow(row) == \A c \in 1..Len(row) : row[c] = 1

\* the rows of fld that are not full, in order, under as many empty rows
\* as fld had full ones
WithoutFullRows(fld) ==
    LET kept == SelectSeq(fld, LAMBDA row : ~IsFullRow(row))
    IN [r \in 1..(Len(fld) - Len(kept)) |-> [c \in 1..Len(fld[1]) |-> 0]]
       \o kept

Cadence == PHYSICS_FRAME_RATE \div falling_speed_in_lines_per_sec

\* the tick about to be taken reaches the gravity move
GravityDue == frames_per_falling_move_counter + 1 = Cadence

NoAction == {"NO_PENDING_EVENT", "PAUSE_GAME", "UNPAUSE_GAME"}

EmptyField == \A r \in 1..Len(field) : \A c \in 1..Len(field[1]) : field[r][c] = 0

(***************************************************************************)
(* C1: while the game is alive after start_game, every opaque cell of the  *)
(* active figure's current rotation grid, placed at the current position,  *)
(* lies inside the field and over an empty field cell.                     *)
(***************************************************************************)
C1_ActiveFigureFits ==
    (Started /\ game_is_alive) =>
        /\ figure_position /= None
        /\ Fits(field, ActiveGrid, figure_position)

\* a rotated figure, moved down, over a field that already holds cells
C1_Witness ==
    /\ Started /\ game_is_alive
    /\ ~EmptyField
    /\ figure_position[2] > 0
    /\ current_key[current_figure] /= SpawnKey

\* the step locked the figure at pos: stamped, full rows removed, spawn tried
C2_LockedAt(pos) ==
    /\ locked'
    /\ raised' = "none"
    /\ field' = WithoutFullRows(Stamped(field, ActiveGrid, pos))
    /\ spawn_try' /= None
    /\ game_is_alive' => figure_position' = spawn_try'

C3_GravityInEveryWindow ==
    (Started /\ game_is_alive /\ Cadence >= 1) => since_gravity < Cadence

(***************************************************************************)
(* C4: under fair ticking every figure that is active while the game is    *)
(* alive is eventually locked, or the game ends.                           *)
(***************************************************************************)
C4_EveryFigureLocks ==
    (Started /\ game_is_alive) ~> (locked \/ ~game_is_alive)

(***************************************************************************)
(* C8: a tick dispatches exactly the event the register holds when it is   *)
(* read, and leaves the neutral event behind; a push overwrites the        *)
(* register (an earlier unconsumed event is lost); a tick that finds a     *)
(* no-action event and owes no gravity move changes nothing of the figure  *)
(* and the field.                                                          *)
(***************************************************************************)
C8_OneEventPerTick ==
    [][/\ TickGame =>
            /\ acted' = event_register
            /\ event_register' = get_neutral_event
            /\ (event_register \in NoAction /\ ~GravityDue) =>
                  UNCHANGED <<field, current_figure, current_key,
                              figure_position, lines_scored>>
       /\ \A e \in Event : PushEvent(e) =>
            /\ event_register' = e
            /\ acted' = "none"
      ]_vars

\* after a tick that dispatched a movement the register is neutral again
C8_Witness ==
    /\ acted = "MOVE_RIGHT"
    /\ event_register = get_neutral_event
    /\ figure_position[1] > 0

C10_NoProgressAfterGameOver ==
    [][(TickGame /\ ~game_is_alive) =>
          UNCHANGED <<field, current_figure, current_key, figure_position,
                      lines_scored>>]_vars

\* C5: the tick's reset of the register never erases an event pushed after
\* the tick read the register: at the reset the register still holds what
\* the tick read.
C5_ResetErasesNothing ==
    [][(p_pc = "reset" /\ p_pc' = "act") => event_register = acted]_vars

\* C6: every appended clear-event record is returned by exactly one pop or
\* is still waiting in lines_scored: none is lost, none is returned twice.
C6_EveryRecordReturnedOnce ==
    appended = returned + Len(lines_scored)

\* C7: rendering never raises and never draws the active figure at a
\* placement the position setter has not validated.
C7_RenderSeesValidatedPlacement ==
    rendered \in {"none", "ok"}

(***************************************************************************)
(* C11: a spawn whose placement leaves the field's borders ends the game   *)
(* through game_is_alive; start_game and tick_game raise nothing.          *)
(***************************************************************************)
InBorders(fld, grid, pos) ==
    \A r \in 0..(Len(grid) - 1) : \A c \in 0..(Len(grid[1]) - 1) :
        grid[r + 1][c + 1] /= 0 =>
            /\ 0 <= c + pos[1] /\ c + pos[1] < Len(fld[1])
            /\ 0 <= r + pos[2] /\ r + pos[2] < Len(fld)

C11_BorderSpawnEndsGame ==
    (spawn_try /= None /\ ~InBorders(field, ActiveGrid, spawn_try)) =>
        (~game_is_alive /\ raised = "none")

(***************************************************************************)
(* C12: every tick_game call terminates: the repeated down-move of the     *)
(* accelerate event ends, whatever figure is active.                       *)
(***************************************************************************)
C12_TickTerminates == raised /= "Diverges"

\* the lowest row the grid reaches from pos going straight down through
\* valid placements
DropRow(fld, grid, pos) ==
    CHOOSE y2 \in pos[2]..(Len(fld) - 1) :
        /\ \A y \in pos[2]..y2 : Fits(fld, grid, <<pos[1], y>>)
        /\ ~Fits(fld, grid, <<pos[1], y2 + 1>>)

(***************************************************************************)
(* C13: a tick that consumes the accelerate event locks the figure in the  *)
(* same tick, in its column, at the lowest row it reaches through valid    *)
(* placements: the field is stamped there, the full rows are cleared (and  *)
(* recorded when there are any) and a spawn on the top row is tried.       *)
(***************************************************************************)
C13_AccelerateLocksAtLowest ==
    [][(TickGame /\ game_is_alive /\ event_register = "SPEED_UP") =>
        LET at == <<figure_position[1],
                    DropRow(field, ActiveGrid, figure_position)>>
            stamped == Stamped(field, ActiveGrid, at)
        IN /\ acted' = "SPEED_UP"
           /\ locked'
           /\ raised' = "none"
           /\ field' = WithoutFullRows(stamped)
           /\ Len(lines_scored') = Len(lines_scored) +
                  (IF \E r \in 1..Len(stamped) : IsFullRow(stamped[r])
                   THEN 1 ELSE 0)
           /\ spawn_try' /= None
           /\ spawn_try'[2] = 0
      ]_vars

\* an accelerated figure was locked and left a column two cells high
C13_Witness ==
    /\ acted = "SPEED_UP"
    /\ locked
    /\ game_is_alive
    /\ \E r \in 2..(Len(field) - 1) : \E c \in 1..Len(field[1]) :
          field[r][c] /= 0 /\ field[r + 1][c] /= 0

\* where a sideways event leaves the figure: one column over when that
\* placement is valid, where it was when it is not
SidewaysTarget ==
    LET dx == IF event_register = "MOVE_LEFT" THEN -1 ELSE 1
        target == <<figure_position[1] + dx, figure_position[2]>>
    IN IF Fits(field, ActiveGrid, target) THEN target ELSE figure_position

(***************************************************************************)
(* C14: a move-left or move-right event changes the column by exactly -1   *)
(* or +1 when the target placement is valid and changes nothing when it is *)
(* blocked; row, rotation and field are as the event found them (a gravity *)
(* move due in the same tick then takes the figure one row down from       *)
(* there), and the tick raises nothing.                                    *)
(***************************************************************************)
C14_SidewaysMoveOrNothing ==
    [][(/\ TickGame
        /\ game_is_alive
        /\ event_register \in {"MOVE_LEFT", "MOVE_RIGHT"}) =>
        /\ raised' = "none"
        /\ ~GravityDue =>
              /\ figure_position' = SidewaysTarget
              /\ UNCHANGED <<field, current_figure, current_key,
                             lines_scored, game_is_alive>>
        /\ (GravityDue /\ Fits(field, ActiveGrid, Below(SidewaysTarget))) =>
              /\ figure_position' = Below(SidewaysTarget)
              /\ UNCHANGED <<field, current_figure, current_key,
                             lines_scored, game_is_alive>>
      ]_vars

\* a tick dispatched MOVE_RIGHT and the figure stands inside the borders
\* against occupied cells on its right
C14_Witness ==
    /\ acted = "MOVE_RIGHT"
    /\ game_is_alive
    /\ ~locked
    /\ InBorders(field, ActiveGrid,
                 <<figure_position[1] + 1, figure_position[2]>>)
    /\ ~Fits(field, ActiveGrid,
             <<figure_position[1] + 1, figure_position[2]>>)

\* the rotation cycle
CyclicSuccessor ==
    [NORMAL |-> "LEFT", LEFT |-> "DOWN", DOWN |-> "RIGHT", RIGHT |-> "NORMAL"]

\* the key a rotate event leaves: the successor when its grid is valid at
\* the position, the key it found when it is not
RotatedKey ==
    LET k == current_key[current_figure]
        grid == built_figures[current_figure][CyclicSuccessor[k]]
    IN IF Fits(field, grid, figure_position) THEN CyclicSuccessor[k] ELSE k

(***************************************************************************)
(* C15: a rotate event sets the rotation key of the active figure to its   *)
(* cyclic successor when the new grid is valid at the unchanged position   *)
(* and leaves the key it found otherwise; the position does not change (a  *)
(* gravity move due in the same tick then takes the figure one row down)   *)
(* and the tick raises nothing.                                            *)
(***************************************************************************)
C15_RotateOrRestore ==
    [][(TickGame /\ game_is_alive /\ event_register = "ROTATE_FIGURE") =>
        LET rotated == [current_key EXCEPT ![current_figure] = RotatedKey]
            grid == built_figures[current_figure][RotatedKey]
        IN /\ raised' = "none"
           /\ ~GravityDue =>
                 /\ current_key' = rotated
                 /\ UNCHANGED <<figure_position, field, current_figure,
                                lines_scored, game_is_alive>>
           /\ (GravityDue /\ Fits(field, grid, Below(figure_position))) =>
                 /\ current_key' = rotated
                 /\ figure_position' = Below(figure_position)
                 /\ UNCHANGED <<field, current_figure, lines_scored,
                                game_is_alive>>
      ]_vars

\* the L figure one column from the left border still holds its spawn
\* rotation after a rotate event: the rotation before it is three cells
\* wide and cannot have stood there, so the key was put back
C15_Witness ==
    /\ acted = "ROTATE_FIGURE"
    /\ game_is_alive
    /\ ~locked
    /\ ActiveGrid = L_figure[SpawnKey]
    /\ figure_position[1] = Len(field[1]) - 2
    /\ ~InBorders(field, L_figure[CyclicSuccessor[SpawnKey]], figure_position)

(***************************************************************************)
(* C16: pop_scored_lines returns, in append order, every record appended   *)
(* since the previous pop and leaves the record empty, so a pop that       *)
(* follows a pop returns the empty list.                                   *)
(***************************************************************************)
C16_PopDrainsInOrder ==
    [][PopCall =>
        /\ Len(pop_ret') = Len(lines_scored)
        /\ \A i \in 1..Len(lines_scored) : pop_ret'[i] = lines_scored[i]
        /\ lines_scored' = <<>>
        /\ (lines_scored = <<>> => pop_ret' = <<>>)
      ]_vars

\* a pop returned the initial record and the record of a later clear, in
\* that order, and left nothing
C16_Witness ==
    /\ Len(pop_ret) = 2
    /\ pop_ret[1] = <<1>>
    /\ runs_returned = <<pop_ret[2]>>
    /\ pop_ret[2] /= <<1>>
    /\ lines_scored = <<>>

\* the rows of fld where a run of full rows starts, and the runs' lengths
\* from top to bottom
RunStarts(fld) ==
    {i \in 1..Len(fld) :
        IsFullRow(fld[i]) /\ (i = 1 \/ ~IsFullRow(fld[i - 1]))}

RunLength(fld, i) ==
    CHOOSE n \in 1..Len(fld) :
        /\ i + n - 1 <= Len(fld)
        /\ \A j \in i..(i + n - 1) : IsFullRow(fld[j])
        /\ (i + n > Len(fld) \/ ~IsFullRow(fld[i + n]))

RunLengths(fld) ==
    LET starts == RunStarts(fld)
        nth(k) == CHOOSE i \in starts :
                      Cardinality({j \in starts : j < i}) = k - 1
    IN [k \in 1..Cardinality(starts) |-> RunLength(fld, nth(k))]

FullRows(fld) == {i \in 1..Len(fld) : IsFullRow(fld[i])}

RECURSIVE SumSeq(_)
SumSeq(q) == IF q = <<>> THEN 0 ELSE q[1] + SumSeq(Tail(q))

C18_FullRowsRemoved ==
    [][ClearCall =>
        LET k == Cardinality(FullRows(field))
            kept == SelectSeq(field, LAMBDA row : ~IsFullRow(row))
        IN /\ Len(field') = Len(field)
           /\ \A r \in 1..Len(field') : Len(field'[r]) = Len(field[1])
           /\ \A r \in 1..k : \A c \in 1..Len(field'[r]) : field'[r][c] = 0
           /\ \A r \in 1..Len(kept) : field'[k + r] = kept[r]
      ]_vars

\* a call removed a full row from between two rows that hold cells
C18_Witness ==
    /\ runs_returned = <<<<1>>>>
    /\ \A c \in 1..Len(field[1]) : field[1][c] = 0
    /\ \A r \in 2..Len(field) : \E c \in 1..Len(field[r]) : field[r][c] /= 0

\* the field of the example: two full rows around the row 0 1 0
ExampleField == <<<<1, 1, 1>>, <<0, 1, 0>>, <<1, 1, 1>>>>

(***************************************************************************)
(* C19, as stated: count_and_clear_lines on the field 111 / 010 / 111      *)
(* with an empty record clears rows 0 and 2, records [[1, 1]], and leaves  *)
(* the field all zero.                                                     *)
(***************************************************************************)
C19_ExampleLeavesAllZero ==
    [][(ClearCall /\ field = ExampleField /\ lines_scored = <<>>) =>
        /\ runs_returned' = <<<<1, 1>>>>
        /\ lines_scored' = <<<<1, 1>>>>
        /\ field' = <<<<0, 0, 0>>, <<0, 0, 0>>, <<0, 0, 0>>>>
      ]_vars

(***************************************************************************)
(* C19, amended: count_and_clear_lines on the field 111 / 010 / 111 with   *)
(* an empty record clears rows 0 and 2, records [[1, 1]], and leaves the   *)
(* field 000 / 000 / 010: the row that was not full stands at the bottom.  *)
(***************************************************************************)
C19_ExampleKeepsMiddleRow ==
    [][(ClearCall /\ field = ExampleField /\ lines_scored = <<>>) =>
        /\ runs_returned' = <<<<1, 1>>>>
        /\ lines_scored' = <<<<1, 1>>>>
        /\ field' = <<<<0, 0, 0>>, <<0, 0, 0>>, <<0, 1, 0>>>>
      ]_vars

\* the call on the example has been made: two single runs, and the only
\* field they leave the row 0 1 0 under
C19_Witness ==
    /\ runs_returned = <<<<1, 1>>>>
    /\ lines_scored = <<<<1, 1>>>>
    /\ field = <<<<0, 0, 0>>, <<0, 0, 0>>, <<0, 1, 0>>>>

(***************************************************************************)
(* C20: on a field with no full row count_and_clear_lines returns an empty *)
(* list, leaves every cell as it was and appends nothing to the record.    *)
(***************************************************************************)
C20_NoFullRowNoChange ==
    [][(ClearCall /\ \A r \in 1..Len(field) : ~IsFullRow(field[r])) =>
        /\ runs_returned' = <<<<>>>>
        /\ field' = field
        /\ lines_scored' = lines_scored
      ]_vars

\* a call on a field that holds cells returned the empty list and the
\* initial record is as it was
C20_Witness ==
    /\ runs_returned = <<<<>>>>
    /\ ~EmptyField
    /\ lines_scored = <<<<1>>>>

\* the cells of the field, as <<column, row>>, under the opaque cells of
\* grid at pos
OpaqueAt(grid, pos) ==
    {<<rc[2] + pos[1], rc[1] + pos[2]>> :
        rc \in {x \in (0..(Len(grid) - 1)) \X (0..(Len(grid[1]) - 1)) :
                    grid[x[1] + 1][x[2] + 1] /= 0}}

OnField(fld, cell) ==
    /\ cell[1] \in 0..(Len(fld[1]) - 1)
    /\ cell[2] \in 0..(Len(fld) - 1)

Occupied(fld, cell) == fld[cell[2] + 1][cell[1] + 1] /= 0

(***************************************************************************)
(* C21: place_figure(figure, coords) succeeds exactly when every opaque    *)
(* cell of the figure's current rotation, offset by coords, is inside the  *)
(* field and over an empty cell (transparent cells constrain nothing).     *)
(* Otherwise it raises a border violation when some opaque cell is outside *)
(* the field, whatever the others overlap, and an intersection violation   *)
(* only when all opaque cells are inside.                                  *)
(***************************************************************************)
C21_PlaceOutcome ==
    [][\A figure \in catalog : \A coords \in PlaceCoords :
        PlaceCall(figure, coords) =>
            LET cells == OpaqueAt(built_figures[figure][current_key[figure]],
                                  coords)
                inside == \A cell \in cells : OnField(field, cell)
                free == \A cell \in cells :
                            OnField(field, cell) => ~Occupied(field, cell)
            IN /\ (raised' = "none") <=> (inside /\ free)
               /\ (raised' = "OutOfBorderException") <=> ~inside
               /\ (raised' = "ObjectIntersectionException")
                      <=> (inside /\ ~free)
               /\ (raised' = "none") =>
                      /\ figure_position' = coords
                      /\ current_figure' = figure
      ]_vars

\* a figure stands placed with a transparent row of its grid below the field
C21_Witness ==
    /\ current_figure /= NoFigure
    /\ figure_position /= None
    /\ raised = "none"
    /\ mapped = <<>>
    /\ current_key[current_figure] = KeyItems[1]
    /\ figure_position[2] + Len(ActiveGrid) > Len(field)

(***************************************************************************)
(* C22: place_figure and change_figure_state leave every cell of the field *)
(* as it was, whether they succeed or raise a border or intersection       *)
(* violation.                                                              *)
(***************************************************************************)
C22_PlacingLeavesField ==
    [][(\/ \E figure \in catalog : \E coords \in PlaceCoords :
              PlaceCall(figure, coords)
        \/ \E key \in Key : ChangeCall(key))
        => field' = field
      ]_vars

\* a call was refused over a field that holds cells, after the figure's
\* rotation had been changed
C22_Witness ==
    /\ raised \in PhysicException
    /\ current_figure /= NoFigure
    /\ current_key[current_figure] /= KeyItems[1]
    /\ figure_position /= None
    /\ ~EmptyField

(***************************************************************************)
(* C23: when update_field_state raises a border or intersection violation  *)
(* the field is exactly as it was before the call; no cell written earlier *)
(* in the pass is kept.                                                    *)
(***************************************************************************)
C23_FailedUpdateLeavesField ==
    [][(UpdateCall /\ raised' \in PhysicException) => field' = field]_vars

(***************************************************************************)
(* C24: the active figure is a copy of its catalog template, so no spawn   *)
(* and no rotation changes the rotation key of an entry of the catalog     *)
(* (the grids of the entries are never written).                           *)
(***************************************************************************)
C24_CatalogUntouched ==
    [][\A template \in catalog : current_key'[template] = current_key[template]
      ]_vars

(***************************************************************************)
(* C25: map_figure_to_field returns the field grid with the opaque cells   *)
(* of the active figure overlaid at the current position (for a figure     *)
(* whose opaque cells are on the field), and leaves the stored field, the  *)
(* active figure and the position as they were.                            *)
(***************************************************************************)
C25_MapOverlaysAndKeeps ==
    [][MapCall =>
        /\ field' = field
        /\ current_figure' = current_figure
        /\ current_key' = current_key
        /\ figure_position' = figure_position
        /\ (/\ current_figure /= NoFigure
            /\ figure_position /= None
            /\ \A cell \in OpaqueAt(ActiveGrid, figure_position) :
                   OnField(field, cell))
           => /\ raised' = "none"
              /\ mapped' = <<Stamped(field, ActiveGrid, figure_position)>>
      ]_vars

\* a grid was returned that shows the figure over the stored field
C25_Witness ==
    /\ mapped /= <<>>
    /\ raised = "none"
    /\ mapped[1] /= field
    /\ \E r \in 1..Len(field) : \E c \in 1..Len(field[r]) :
          mapped[1][r][c] /= 0 /\ field[r][c] = 0

\* some occupied cell of the field is empty after the step
SomeCellEmptied ==
    \E r \in 1..Len(field) : \E c \in 1..Len(field[r]) :
        field[r][c] /= 0 /\ field'[r][c] = 0

(***************************************************************************)
(* C26: an occupied cell of the field becomes empty only when rows are     *)
(* cleared.  A tick that locks no figure leaves the field as it was, and a *)
(* lock that clears no row only turns empty cells into occupied ones.      *)
(***************************************************************************)
C26_OnlyClearingEmpties ==
    [][/\ SomeCellEmptied =>
            /\ locked'
            /\ Len(lines_scored') = Len(lines_scored) + 1
       /\ (TickGame /\ ~locked') => field' = field
       /\ (TickGame /\ locked' /\ lines_scored' = lines_scored) =>
            \A r \in 1..Len(field) : \A c \in 1..Len(field[r]) :
                field'[r][c] /= field[r][c] =>
                    field[r][c] = 0 /\ field'[r][c] /= 0
      ]_vars

\* a tick has locked a figure into the field without clearing a row
C26_Witness ==
    /\ locked
    /\ game_is_alive
    /\ raised = "none"
    /\ lines_scored = <<>>
    /\ ~EmptyField
    /\ \E r \in 1..Len(field) : \A c \in 1..Len(field[r]) : field[r][c] = 0

(***************************************************************************)
(* C27: Key.next and Key.prev form a cycle over NORMAL, LEFT, DOWN, RIGHT: *)
(* next of the last key is the first, prev of the first is the last, each  *)
(* undoes the other, and len(Key) applications of next give the starting   *)
(* key.                                                                    *)
(***************************************************************************)
C27_KeyCycle ==
    [][/\ KeyNextCall =>
            /\ key_value' = CyclicSuccessor[key_value]
            /\ KeyPrev(key_value') = key_value
            /\ KeyNext(KeyNext(KeyNext(key_value'))) = key_value
            /\ key_value = KeyItems[Len(KeyItems)] => key_value' = KeyItems[1]
       /\ KeyPrevCall =>
            /\ CyclicSuccessor[key_value'] = key_value
            /\ KeyNext(key_value') = key_value
            /\ key_value = KeyItems[1] => key_value' = KeyItems[Len(KeyItems)]
      ]_vars

\* prev has stepped from the first key round to the last
C27_Witness ==
    /\ key_value = KeyItems[Len(KeyItems)]
    /\ made = <<>>
    /\ raised = "none"

\* a sequence of rows that all have the length of the first, which is not 0
Rectangular(state) ==
    /\ state /= <<>>
    /\ \A i \in 1..Len(state) :
          /\ state[i].is_row
          /\ state[i].cells /= <<>>
          /\ Len(state[i].cells) = Len(state[1].cells)

(***************************************************************************)
(* C30: FieldState and FigureState accept a nested sequence only when it   *)
(* is non-empty, nested and rectangular, so a state that was constructed   *)
(* has all rows of one non-zero length.                                    *)
(***************************************************************************)
C30_AcceptedIsRectangular ==
    made /= <<>> => Rectangular(made[1].state)

(***************************************************************************)
(* C28: a figure that get_result has returned keeps its rotation grids and *)
(* its current key through every later reset and set_state on the builder. *)
(***************************************************************************)
C28_ResultIndependent ==
    [][\A i \in 1..Len(results) :
            /\ results'[i] = results[i]
            /\ figure_objects'[results[i]] = figure_objects[results[i]]
      ]_vars

\* the builder has been written to since it returned a figure
C28_Witness ==
    /\ results /= <<>>
    /\ figure_objects[results[1]] /= figure_objects[builder_figure]
    /\ figure_objects[results[1]].states[KeyItems[1]] = <<RowItem(<<1>>)>>

(***************************************************************************)
(* C29: on a builder that was never reset, get_result, and set_state with  *)
(* a state FigureState accepts, fail with ValueError, and no figure is     *)
(* produced or changed.                                                    *)
(***************************************************************************)
C29_NotResetNotReady ==
    [][~figure_objects[builder_figure].has_states =>
        /\ GetResultCall =>
              /\ raised' = "ValueError"
              /\ UNCHANGED <<figure_objects, results>>
        /\ \A key \in Key : \A state \in BuilderStates :
              (SetStateCall(key, state) /\ FigureState(state) = "none") =>
                  /\ raised' = "ValueError"
                  /\ UNCHANGED <<figure_objects, results>>
      ]_vars

\* a call on the builder was refused before any reset
C29_Witness ==
    /\ raised = "ValueError"
    /\ ~figure_objects[builder_figure].has_states
    /\ results = <<>>
    /\ Len(figure_objects) = 1

(***************************************************************************)
(* C31: make_row_empty(idx) with 0 <= idx < height sets every cell of row  *)
(* idx to 0 and leaves the other rows as they were; for an index outside   *)
(* that range it raises a range error and leaves the field as it was.      *)
(***************************************************************************)
C31_RowEmptiedOrRefused ==
    [][\A idx \in RowIndexes : MakeRowEmptyCall(idx) =>
        IF idx \in 0..(Len(field) - 1)
        THEN /\ raised' = "none"
             /\ Len(field') = Len(field)
             /\ \A r \in 1..Len(field) :
                   IF r = idx + 1
                   THEN /\ Len(field'[r]) = Len(field[r])
                        /\ \A c \in 1..Len(field'[r]) : field'[r][c] = 0
                   ELSE field'[r] = field[r]
        ELSE /\ raised' = "ValueError"
             /\ field' = field
      ]_vars

\* a call with an index out of range was refused on a field with a cell in
\* its last row
C31_Witness ==
    /\ raised = "ValueError"
    /\ current_figure = NoFigure
    /\ \E c \in 1..Len(field[Len(field)]) : field[Len(field)][c] /= 0

(***************************************************************************)
(* C32: get_current_figure fails with ValueError as long as place_figure   *)
(* was never called, get_current_figure_pos fails with ValueError as long  *)
(* as no place_figure call has returned, and get_current_field_state       *)
(* never fails.                                                            *)
(***************************************************************************)
C32_AccessorsNotReady ==
    [][/\ GetFigureCall =>
            (~placements.called => raised' = "ValueError")
       /\ GetPosCall =>
            (~placements.succeeded => raised' = "ValueError")
       /\ GetFieldCall => raised' = "none"
      ]_vars

\* the position was asked for after the only placements had been refused:
\* a figure is held, and the accessor of the position failed
C32_Witness ==
    /\ placements.called
    /\ ~placements.succeeded
    /\ current_figure /= NoFigure
    /\ raised = "ValueError"

\* the state in which the try block of the tick about to be taken ends
AtLock == tick_try(State)

\* the field row of the lowest opaque cell of grid at pos
LowestRow(grid, pos) ==
    CHOOSE y \in pos[2]..(pos[2] + Len(grid) - 1) :
        /\ \E c \in 1..Len(grid[1]) : grid[y - pos[2] + 1][c] /= 0
        /\ \A y2 \in (y + 1)..(pos[2] + Len(grid) - 1) :
              \A c \in 1..Len(grid[1]) : grid[y2 - pos[2] + 1][c] = 0

\* no cell of fld under an opaque cell of grid at pos is occupied
ClearBelow(fld, grid, pos) ==
    \A r \in 0..(Len(grid) - 1) : \A c \in 0..(Len(grid[1]) - 1) :
        grid[r + 1][c + 1] /= 0 =>
            \A y \in (r + pos[2] + 1)..(Len(fld) - 1) :
                (c + pos[1] \in 0..(Len(fld[1]) - 1) /\ y >= 0)
                    => fld[y + 1][c + pos[1] + 1] = 0

(***************************************************************************)
(* C33: a tick writes the active figure into the field only when the       *)
(* figure, where the tick's moves have left it, cannot be placed one row   *)
(* lower; a figure that stands on the field over empty cells, with nothing *)
(* but empty cells under it, and is blocked by gravity has its lowest      *)
(* opaque cell on the bottom row; and the tick that locks a figure, its    *)
(* stamping having returned, attempts the spawn of the next.               *)
(***************************************************************************)
C33_StampOnlyWhenBlocked ==
    [][TickGame =>
        /\ (locked' \/ field' /= field) =>
              /\ AtLock.exc = "FigureIsToBeAppended"
              /\ AtLock.pos /= None
              /\ ~Fits(AtLock.field, CurrentState(AtLock), Below(AtLock.pos))
        /\ (/\ locked'
            /\ event_register \in NoAction
            /\ Fits(field, ActiveGrid, figure_position)
            /\ ClearBelow(field, ActiveGrid, figure_position))
           => LowestRow(ActiveGrid, figure_position) = Len(field) - 1
        /\ (locked' /\ raised' = "none") => spawn_try' /= None
      ]_vars

\* gravity locked a figure on the floor of an empty field, and the next
\* figure stands at the top
C33_Witness ==
    /\ locked /\ game_is_alive
    /\ acted \in NoAction
    /\ lines_scored = <<>>
    /\ figure_position = spawn_try
    /\ \E c \in 1..Len(field[1]) : field[Len(field)][c] /= 0
    /\ \A c \in 1..Len(field[1]) : field[1][c] = 0

(***************************************************************************)
(* C34: every spawn, the first and each one after a lock, attempts its     *)
(* placement at row 0 and at a column x with 0 <= x <= field width -       *)
(* figure width, the figure width being that of the grid the figure is     *)
(* spawned in; a figure wider than the field is attempted at (0, 0).       *)
(***************************************************************************)
C34_SpawnAtTopInRange ==
    [][spawn_try' /= None =>
        /\ current_key'[current_figure'] = SpawnKey
        /\ spawn_try'[2] = 0
        /\ IF Len(ActiveGridNext[1]) > Len(field'[1])
           THEN spawn_try' = <<0, 0>>
           ELSE spawn_try'[1] \in 0..(Len(field'[1]) - Len(ActiveGridNext[1]))
      ]_vars

\* a figure was spawned at (0, 0) over a field narrower than its grid
C34_Witness ==
    /\ spawn_try = <<0, 0>>
    /\ current_figure /= NoFigure
    /\ Len(ActiveGrid[1]) > Len(field[1])

\* a figure was spawned after a lock in the last column it fits into
C34_WitnessLastColumn ==
    /\ locked
    /\ spawn_try /= None
    /\ spawn_try[1] > 0
    /\ spawn_try[1] = Len(field[1]) - Len(ActiveGrid[1])

(***************************************************************************)
(* C35: from a field with no full row, after start_game and any number of  *)
(* tick_game calls that returned, the field holds no full row.             *)
(***************************************************************************)
C35_NoFullRowBetweenTicks ==
    raised = "none" => \A r \in 1..Len(field) : ~IsFullRow(field[r])

\* a lock completed a row, the row was cleared, and cells are left
C35_Witness ==
    /\ raised = "none"
    /\ locked
    /\ lines_scored /= <<>>
    /\ \E c \in 1..Len(field[1]) : field[Len(field)][c] /= 0

(***************************************************************************)
(* C36: a place_figure call that raises a border or an intersection        *)
(* violation leaves the interactor as it was: the active figure and its    *)
(* position are those held before the call.                                *)
(***************************************************************************)
C36_RefusedPlaceKeepsFigure ==
    [][\A figure \in catalog : \A coords \in PlaceCoords :
        (PlaceCall(figure, coords) /\ raised' \in PhysicException) =>
            /\ current_figure' = current_figure
            /\ figure_position' = figure_position
      ]_vars

(***************************************************************************)
(* C37: two interactors built without an initial field own independent     *)
(* fields, so a write through one does not show in the other; and an       *)
(* interactor built from a grid of the caller does not write into the      *)
(* caller's rows.                                                          *)
(***************************************************************************)
C37_FieldsIndependent ==
    [][\A holder \in Interactors : \A figure \in FigureIds :
       \A coords \in ShareCoords :
        ShareUpdateCall(holder, figure, coords) =>
            /\ holder = "first" => FieldOfNext("second") = FieldOf("second")
            /\ holder = "second" => FieldOfNext("first") = FieldOf("first")
            /\ holder = "built" => FieldOfNext("grid") = FieldOf("grid")
      ]_vars

(***************************************************************************)
(* C38: a key press that maps to no event leaves the pending event as it   *)
(* is.                                                                     *)
(***************************************************************************)
C38_UnmappedKeyKeepsPending ==
    [][\A key \in PressedKeys \ DOMAIN KeyEventStorage :
        OnPress(key) => event_register' = event_register
      ]_vars

(***************************************************************************)
(* C39: every falling speed the manager accepts is a positive integer not  *)
(* above the physics frame rate, so the cadence is at least 1 and no tick  *)
(* divides by zero.                                                        *)
(***************************************************************************)
C39_AcceptedSpeedGivesCadence ==
    /\ falling_speed_in_lines_per_sec \in 1..PHYSICS_FRAME_RATE
    /\ raised /= "ZeroDivisionError"

=============================================================================
